---------------------------- MODULE Spec2Model ----------------------------
(***************************************************************************)
(* State-machine model of the Bact-Sim ecosystem simulation                *)
(* (src/src/main.rs).  One action, Frame, is one pass of the frame loop of  *)
(* main: input handling, the world tick (when not paused), the statistics   *)
(* sample and the UI panel.                                                 *)
(*                                                                         *)
(* f32 quantities are fixed point integers:                                 *)
(*   traits (speed, size, sense_radius)   tenths          (TraitScale)      *)
(*   positions, radii                     tenths          (PosScale)        *)
(*   velocities                           thousandths     (VelScale), one   *)
(*                                        of 16 compass headings, or NaN    *)
(*   energies                             millionths      (Micro)           *)
(*   colour channels, mutation rate and   hundredths      (ColScale)        *)
(*   strength                                                               *)
(*   speed multiplier, food growth rate   tenths                            *)
(* The random number generators are a tape: every frame draws one seed and  *)
(* the k-th draw of the frame is Draw(seed, k, n), uniform over 0..n-1.     *)
(***************************************************************************)
EXTENDS Integers, Sequences, FiniteSets, TLC

VARIABLES
    bacteria,     \* Vec<Bacterium>
    predators,    \* Vec<Predator>
    food,         \* Vec<Vec2>
    params,       \* SimulationParams
    ui_state,     \* UIState
    stats,        \* Stats
    status,       \* "running", or "panicked" once a frame has panicked
    frames,       \* number of frames completed (history variable)
    obs,          \* what the last frame did (history variable)
    arrivals      \* every sample handed to stats.push, in order (history variable)

vars == <<bacteria, predators, food, params, ui_state, stats, status, frames, obs,
          arrivals>>

----------------------------------------------------------------------------
(* Bounds of the model *)

\* frames explored from an initial state
MaxFrames == 3
\* random tapes per frame
NumSeeds == 2
\* initial populations (50 bacteria, 5 predators, 200 food in main, scaled down)
InitialBacteria == 2
InitialPredators == 1
InitialFood == 2
\* the food ceiling (SimulationParams::default().max_food = 1000, scaled down)
MaxFood == 3
\* frames already run in a mid-run initial state, and frames explored from it
HistoryStart == 299
MidRunFrames == 2
\* longest prey list the commit phase is applied to on its own
MaxCommitPrey == 6

----------------------------------------------------------------------------
(* Fixed point scales *)

TraitScale == 10
PosScale == 10
VelScale == 1000
ColScale == 100
Micro == 1000 * 1000

(* Program constants *)

MAX_HISTORY == 300
SCREEN_WIDTH == 1400 * PosScale
SCREEN_HEIGHT == 900 * PosScale
GRAPH_HEIGHT == 200 * PosScale
UI_PANEL_WIDTH == 320 * PosScale
sim_w == SCREEN_WIDTH - UI_PANEL_WIDTH
sim_h == SCREEN_HEIGHT - GRAPH_HEIGHT
\* for _ in 0..10 in the extinction fail safe
ReseedCount == 10

----------------------------------------------------------------------------
(* Arithmetic helpers *)

Min(a, b) == IF a < b THEN a ELSE b
Max(a, b) == IF a > b THEN a ELSE b
Abs(a) == IF a < 0 THEN -a ELSE a

\* division rounding toward zero
Trunc(a, b) == IF a >= 0 THEN a \div b ELSE -((-a) \div b)

\* a clamp that lets every value through
ClampIdentity(x, lo, hi) == x

\* f32::clamp
Clamp(x, lo, hi) == IF x < lo THEN lo ELSE IF x > hi THEN hi ELSE x

----------------------------------------------------------------------------
(* The random tape *)

Seeds == 0 .. (NumSeeds - 1)

Raw(seed, k) == ((k + 1) * (seed + 2) * 7919 + seed * 104729 + k * k * 31) % 1009

\* the k-th draw of the frame, uniform over 0 .. n-1 (n > 0)
Draw(seed, k, n) == (Raw(seed, k) * n) \div 1009

\* rng.gen_bool(p), p in hundredths
gen_bool(seed, k, p) == Draw(seed, k, 100) < p

----------------------------------------------------------------------------
(* Vec2 *)

\* the value every component of a vector takes after normalize() of the
\* zero vector (0 * inf = NaN); all comparisons with it are false
NaNVec == <<0, 0, "NaN">>
IsNaN(v) == Len(v) = 3

\* the 16 unit vectors, heading h at h * 22.5 degrees
Dir == <<
    <<1000, 0>>, <<924, 383>>, <<707, 707>>, <<383, 924>>,
    <<0, 1000>>, <<-383, 924>>, <<-707, 707>>, <<-924, 383>>,
    <<-1000, 0>>, <<-924, -383>>, <<-707, -707>>, <<-383, -924>>,
    <<0, -1000>>, <<383, -924>>, <<707, -707>>, <<924, -383>> >>

NumHeadings == Len(Dir)

\* vec2(angle.cos(), angle.sin())
FromHeading(h) == Dir[(h % NumHeadings) + 1]

\* vel.y.atan2(vel.x), as a heading
Heading(v) == CHOOSE h \in 0 .. (NumHeadings - 1) : Dir[h + 1] = v

Dot(a, b) == a[1] * b[1] + a[2] * b[2]

\* v.normalize(): the heading nearest to v; NaN for the zero vector
Normalize(v) ==
    IF IsNaN(v) \/ (v[1] = 0 /\ v[2] = 0) THEN NaNVec
    ELSE LET best == CHOOSE h \in 0 .. (NumHeadings - 1) :
                        \A g \in 0 .. (NumHeadings - 1) :
                            \/ Dot(Dir[h + 1], v) > Dot(Dir[g + 1], v)
                            \/ (Dot(Dir[h + 1], v) = Dot(Dir[g + 1], v) /\ h <= g)
         IN  Dir[best + 1]

Neg(v) == IF IsNaN(v) THEN NaNVec ELSE <<-v[1], -v[2]>>

\* a.distance(b) < r, r in tenths; false when either is NaN
Within(a, b, r) ==
    /\ ~IsNaN(a)
    /\ ~IsNaN(b)
    /\ r > 0
    /\ Abs(a[1] - b[1]) < r
    /\ Abs(a[2] - b[2]) < r
    /\ (a[1] - b[1]) * (a[1] - b[1]) + (a[2] - b[2]) * (a[2] - b[2]) < r * r

\* squared distance, for the nearest-item scans (callers test Within first)
Dist2(a, b) == (a[1] - b[1]) * (a[1] - b[1]) + (a[2] - b[2]) * (a[2] - b[2])

----------------------------------------------------------------------------
(* SimulationParams *)

SimulationParams_default == [
    food_growth_rate |-> 2 * 10,
    max_food |-> MaxFood,
    mutation_rate |-> 10,
    mutation_strength |-> 10,
    reproduction_threshold |-> 150 * Micro,
    initial_energy |-> 100 * Micro,
    speed_multiplier |-> 10,
    predator_count |-> InitialPredators,
    predator_reproduction_threshold |-> 200 * Micro ]

----------------------------------------------------------------------------
(* Stats *)

Stats_new == [
    population_history |-> <<>>,
    avg_speed_history |-> <<>>,
    avg_size_history |-> <<>>,
    predator_history |-> <<>> ]

\* Vec::remove(0) on every series once the first one is longer than MAX_HISTORY
\* a push that never evicts
Stats_pushUnbounded(st, pop, speed, size, preds) ==
    [ population_history |-> Append(st.population_history, pop),
      avg_speed_history |-> Append(st.avg_speed_history, speed),
      avg_size_history |-> Append(st.avg_size_history, size),
      predator_history |-> Append(st.predator_history, preds) ]

\* a push that, at capacity, drops the newest sample instead of the oldest
Stats_pushDropsNewest(st, pop, speed, size, preds) ==
    IF Len(st.population_history) >= MAX_HISTORY
    THEN st
    ELSE [ population_history |-> Append(st.population_history, pop),
           avg_speed_history |-> Append(st.avg_speed_history, speed),
           avg_size_history |-> Append(st.avg_size_history, size),
           predator_history |-> Append(st.predator_history, preds) ]

Stats_push(st, pop, speed, size, preds) ==
    LET pushed == [
            population_history |-> Append(st.population_history, pop),
            avg_speed_history |-> Append(st.avg_speed_history, speed),
            avg_size_history |-> Append(st.avg_size_history, size),
            predator_history |-> Append(st.predator_history, preds) ]
    IN  IF Len(pushed.population_history) > MAX_HISTORY
        THEN [ population_history |-> Tail(pushed.population_history),
               avg_speed_history |-> Tail(pushed.avg_speed_history),
               avg_size_history |-> Tail(pushed.avg_size_history),
               predator_history |-> Tail(pushed.predator_history) ]
        ELSE pushed

----------------------------------------------------------------------------
(* DNA *)

TraitMin == 1
TraitMax == 100 * TraitScale
ColorMin == 20
ColorMax == 100

\* rng.gen_range(lo..hi) over the fixed point grid: lo .. hi-1
gen_range(seed, k, lo, hi) == lo + Draw(seed, k, hi - lo)

\* DNA::random, draws k .. k+5
DNA_random(seed, k) == [
    speed |-> gen_range(seed, k, 1 * TraitScale, 3 * TraitScale),
    size |-> gen_range(seed, k + 1, 3 * TraitScale, 8 * TraitScale),
    sense_radius |-> gen_range(seed, k + 2, 20 * TraitScale, 60 * TraitScale),
    color |-> << gen_range(seed, k + 3, ColorMin, ColorMax),
                 gen_range(seed, k + 4, ColorMin, ColorMax),
                 gen_range(seed, k + 5, ColorMin, ColorMax),
                 90 >> ]

\* rng.gen_range(-strength..strength) panics on the empty range (strength = 0)
RangeIsEmpty(lo, hi) == ~(lo < hi)

\* one scalar trait of DNA::mutate: draws kb (gen_bool) and kc (the change)
MutateTrait(x, p, seed, kb, kc) ==
    IF gen_bool(seed, kb, p.mutation_rate)
    THEN LET change == gen_range(seed, kc, -p.mutation_strength, p.mutation_strength)
         IN  Clamp(Trunc(x * (ColScale + change), ColScale), TraitMin, TraitMax)
    ELSE x

\* one colour channel of DNA::mutate: c + gen_range(-0.05..0.05), clamped
MutateChannel(c, seed, k) ==
    Clamp(c + gen_range(seed, k, -5, 5), ColorMin, ColorMax)

\* whether DNA::mutate panics: some trait is perturbed and the range is empty
MutatePanics(p, seed, k) ==
    /\ RangeIsEmpty(-p.mutation_strength, p.mutation_strength)
    /\ \E j \in 0 .. 2 : gen_bool(seed, k + j, p.mutation_rate)

\* DNA::mutate, draws k .. k+8 (when it does not panic)
DNA_mutate(dna, p, seed, k) == [
    speed |-> MutateTrait(dna.speed, p, seed, k, k + 3),
    size |-> MutateTrait(dna.size, p, seed, k + 1, k + 4),
    sense_radius |-> MutateTrait(dna.sense_radius, p, seed, k + 2, k + 5),
    color |-> << MutateChannel(dna.color[1], seed, k + 6),
                 MutateChannel(dna.color[2], seed, k + 7),
                 MutateChannel(dna.color[3], seed, k + 8),
                 90 >> ]

----------------------------------------------------------------------------
(* Movement shared by Bacterium::update and Predator::update *)

\* self.pos += self.vel * speed * speed_mult
Advance(pos, vel, speed, mult) ==
    IF IsNaN(pos) \/ IsNaN(vel) THEN NaNVec
    ELSE << pos[1] + Trunc(vel[1] * speed * mult, VelScale * TraitScale),
            pos[2] + Trunc(vel[2] * speed * mult, VelScale * TraitScale) >>

\* bounce off walls: [pos, vel] after the two wall tests
Bounce(pos, vel) ==
    IF IsNaN(pos) THEN [pos |-> pos, vel |-> vel]
    ELSE LET hitx == pos[1] < 0 \/ pos[1] > sim_w
             hity == pos[2] < 0 \/ pos[2] > sim_h
         IN  [ pos |-> << IF hitx THEN Clamp(pos[1], 0, sim_w) ELSE pos[1],
                          IF hity THEN Clamp(pos[2], 0, sim_h) ELSE pos[2] >>,
               vel |-> << IF hitx THEN -vel[1] ELSE vel[1],
                          IF hity THEN -vel[2] ELSE vel[2] >> ]

\* (vel + dir * w).normalize() with w in tenths
Steer(vel, dir, w) ==
    IF IsNaN(vel) \/ IsNaN(dir) THEN NaNVec
    ELSE Normalize(<< 10 * vel[1] + w * dir[1], 10 * vel[2] + w * dir[2] >>)

\* vec2(new_angle.cos(), new_angle.sin()) with new_angle = atan2(vel) + jitter
Jitter(vel, jit) ==
    IF IsNaN(vel) THEN NaNVec
    ELSE FromHeading(Heading(vel) + NumHeadings + jit)

\* index of the nearest item of positions strictly within radius, 0 for None;
\* the first item at the strict minimum wins
RECURSIVE NearestFrom(_, _, _, _, _, _)
NearestFrom(pos, items, radius, i, best, bestD2) ==
    IF i > Len(items) THEN best
    ELSE IF Within(pos, items[i], radius)
            /\ (best = 0 \/ Dist2(pos, items[i]) < bestD2)
         THEN NearestFrom(pos, items, radius, i + 1, i, Dist2(pos, items[i]))
         ELSE NearestFrom(pos, items, radius, i + 1, best, bestD2)

Nearest(pos, items, radius) == NearestFrom(pos, items, radius, 1, 0, 0)

----------------------------------------------------------------------------
(* Bacterium *)

\* Bacterium::new, draws k (the angle) and k+1 .. k+6 (the DNA)
Bacterium_new(pos, initial_energy, seed, k) == [
    pos |-> pos,
    vel |-> FromHeading(Draw(seed, k, NumHeadings)),
    dna |-> DNA_random(seed, k + 1),
    energy |-> initial_energy,
    age |-> 0 ]

\* flee_dir: the sum of away / dist over the predators with 0.1 < dist < 80,
\* in thousandths (away / dist = (self.pos - p.pos) / dist^2)
RECURSIVE FleeDir(_, _, _)
FleeDir(pos, preds, i) ==
    IF i > Len(preds) THEN <<0, 0>>
    ELSE LET rest == FleeDir(pos, preds, i + 1)
             q == preds[i].pos
         IN  IF Within(pos, q, 80 * PosScale) /\ Dist2(pos, q) > 1
             THEN << rest[1] + Trunc(VelScale * PosScale * (pos[1] - q[1]), Dist2(pos, q)),
                     rest[2] + Trunc(VelScale * PosScale * (pos[2] - q[2]), Dist2(pos, q)) >>
             ELSE rest

\* flee_dir.length() > 0.1
FleeActive(flee) == flee[1] * flee[1] + flee[2] * flee[2] > (VelScale \div 10) * (VelScale \div 10)

\* direction from pos to target: (target - self.pos).normalize()
Toward(pos, target) ==
    IF IsNaN(pos) \/ IsNaN(target) THEN NaNVec
    ELSE Normalize(<< target[1] - pos[1], target[2] - pos[2] >>)

\* a metabolism without the base cost of 0.1
MetabolismNoBase(dna, mult) ==
    Trunc((5 * dna.speed * dna.speed * dna.size) * mult, 10)

\* cost * speed_mult with cost = speed^2 * size * 0.005 + 0.1, in millionths:
\* (s/10)^2 * (z/10) * 0.005 * 10^6 = 5 * s^2 * z
Metabolism(dna, mult) ==
    Trunc((5 * dna.speed * dna.speed * dna.size + Micro \div 10) * mult, 10)

\* Bacterium::update; jit is the jitter draw, in headings (-1, 0, 1)
Bacterium_update(b, foods, mult, preds, jit) ==
    LET moved == Bounce(Advance(b.pos, b.vel, b.dna.speed, mult), b.vel)
        flee == IF IsNaN(moved.pos) THEN <<0, 0>> ELSE FleeDir(moved.pos, preds, 1)
        jittered == Jitter(moved.vel, jit)
        idx == Nearest(moved.pos, foods, b.dna.sense_radius)
        vel == IF FleeActive(flee)
               THEN Steer(moved.vel, Normalize(flee), 5)
               ELSE IF idx # 0
                    THEN Steer(jittered, Toward(moved.pos, foods[idx]), 2)
                    ELSE jittered
    IN  [ b EXCEPT !.pos = moved.pos,
                   !.vel = vel,
                   !.energy = b.energy - Metabolism(b.dna, mult),
                   !.age = b.age + 1 ]

----------------------------------------------------------------------------
(* Predator *)

\* Predator::new, draw k (the angle)
Predator_new(pos, seed, k) == [
    pos |-> pos,
    vel |-> FromHeading(Draw(seed, k, NumHeadings)),
    energy |-> 150 * Micro,
    speed |-> 25,
    size |-> 12 * PosScale,
    sense_radius |-> 100 * PosScale ]

\* positions of the bacteria, the targets of the hunt
Positions(bs) == [i \in 1 .. Len(bs) |-> bs[i].pos]

\* Predator::update; jit is the wandering draw, in headings
Predator_update(p, bs, mult, jit) ==
    LET moved == Bounce(Advance(p.pos, p.vel, p.speed, mult), p.vel)
        idx == Nearest(moved.pos, Positions(bs), p.sense_radius)
        vel == IF Len(bs) = 0 THEN moved.vel
               ELSE IF idx # 0
                    THEN Steer(moved.vel, Toward(moved.pos, bs[idx].pos), 3)
                    ELSE Jitter(moved.vel, jit)
    IN  [ p EXCEPT !.pos = moved.pos,
                   !.vel = vel,
                   !.energy = p.energy - Trunc(2 * (Micro \div 10) * mult, 10) ]

----------------------------------------------------------------------------
(* The world tick: lines 576-695 of main *)

\* coordinates macroquad::rand::gen_range(0.0, sim_w) and (0.0, sim_h) are
\* sampled from
XSamples == << 0, 4 * PosScale, 9 * PosScale, 22 * PosScale, 26 * PosScale, sim_w >>
YSamples == << 0, 3 * PosScale, sim_h >>

\* vec2(gen_range(0.0, sim_w), gen_range(0.0, sim_h)), draws k and k+1
RandomPos(seed, k) ==
    << XSamples[Draw(seed, k, Len(XSamples)) + 1],
       YSamples[Draw(seed, k + 1, Len(YSamples)) + 1] >>

\* where on the tape each part of the tick draws
FoodDraw(j) == 2 * j
PreyDraw(idx) == 100 + 10 * idx
PredatorDraw(j) == 50 + j
ReseedDraw(r) == 2000 + 10 * r

\* rng.gen_range(-0.2..0.2) and (-0.15..0.15) as a turn of -1, 0 or 1 heading
JitterDraw(seed, k) == Draw(seed, k, 3) - 1

\* add random food
AddFood(foods, p, seed) ==
    IF Len(foods) < p.max_food
    THEN foods \o [j \in 1 .. (p.food_growth_rate \div 10) |-> RandomPos(seed, FoodDraw(j))]
    ELSE foods

\* a test that lets an eaten food index be eaten again
FoodTakenTwice(i, eaten_food) == TRUE

\* !eaten_food.contains(&i)
FoodAvailable(i, eaten_food) == i \notin eaten_food

\* the food a bacterium eats: every index not yet eaten within size + 2.0
FoodHits(b, foods, eaten_food) ==
    { i \in 1 .. Len(foods) :
        FoodAvailable(i, eaten_food) /\ Within(b.pos, foods[i], b.dna.size + 2 * PosScale) }

\* check if eaten by predator
IsEaten(b, preds) ==
    \E j \in 1 .. Len(preds) : Within(b.pos, preds[j].pos, preds[j].size + b.dna.size)

\* b.energy *= 0.5
Halve(e) == Trunc(e, 2)

\* the loop body after b.update(..): eat food, check if eaten by predator,
\* reproduce (if not eaten); moved is the bacterium after its update
PreyAfterUpdate(acc, idx, moved, foods, preds, p, seed) ==
    LET hits == FoodHits(moved, foods, acc.eaten_food)
        fed == [moved EXCEPT !.energy = moved.energy + 30 * Micro * Cardinality(hits)]
        is_eaten == IsEaten(fed, preds)
        reproduces == ~is_eaten /\ fed.energy > p.reproduction_threshold
        parent == IF reproduces THEN [fed EXCEPT !.energy = Halve(fed.energy)] ELSE fed
        panics == reproduces /\ MutatePanics(p, seed, PreyDraw(idx) + 1)
        offspring == [ pos |-> parent.pos,
                       vel |-> Neg(parent.vel),
                       dna |-> DNA_mutate(parent.dna, p, seed, PreyDraw(idx) + 1),
                       energy |-> parent.energy,
                       age |-> 0 ]
    IN  [ bacteria |-> [acc.bacteria EXCEPT ![idx] = parent],
          eaten_food |-> acc.eaten_food \cup hits,
          eaten_bacteria |-> IF is_eaten THEN acc.eaten_bacteria \cup {idx}
                             ELSE acc.eaten_bacteria,
          next_gen_bacteria |-> IF reproduces /\ ~panics
                                THEN Append(acc.next_gen_bacteria, offspring)
                                ELSE acc.next_gen_bacteria,
          panicked |-> panics,
          \* history: the +30 credits applied and who got them for which food,
          \* the bacterium at its reproduction check, who emitted which offspring
          credits |-> acc.credits + Cardinality(hits),
          feeders |-> acc.feeders \cup { <<idx, i>> : i \in hits },
          at_check |-> Append(acc.at_check, fed),
          births |-> IF reproduces /\ ~panics
                     THEN Append(acc.births, [parent |-> idx, child |-> offspring])
                     ELSE acc.births ]

\* one iteration of the loop over bacteria.iter_mut().enumerate()
PreyStep(acc, idx, foods, preds, p, seed) ==
    PreyAfterUpdate(acc, idx,
                    Bacterium_update(acc.bacteria[idx], foods, p.speed_multiplier, preds,
                                     JitterDraw(seed, PreyDraw(idx))),
                    foods, preds, p, seed)

\* the loop over the bacteria, from index idx on; a panic ends it
RECURSIVE PreyPass(_, _, _, _, _, _)
PreyPass(acc, idx, foods, preds, p, seed) ==
    IF idx > Len(acc.bacteria) \/ acc.panicked THEN acc
    ELSE PreyPass(PreyStep(acc, idx, foods, preds, p, seed), idx + 1, foods, preds, p, seed)

\* a test that lets an eaten bacterium be eaten again
PreyTakenTwice(i, eaten_bacteria) == TRUE

\* !eaten_bacteria.contains(&i)
PreyAvailable(i, eaten_bacteria) == i \notin eaten_bacteria

\* the loop body after p.update(..): eat bacteria, reproduce; moved is the
\* predator after its update
PredatorAfterUpdate(acc, j, moved, bs, p) ==
    LET caught == { i \in 1 .. Len(bs) :
                      PreyAvailable(i, acc.eaten_bacteria)
                      /\ Within(moved.pos, bs[i].pos, moved.size + bs[i].dna.size) }
        fed == [moved EXCEPT !.energy = moved.energy + 80 * Micro * Cardinality(caught)]
        reproduces == fed.energy > p.predator_reproduction_threshold
        parent == IF reproduces THEN [fed EXCEPT !.energy = Halve(fed.energy)] ELSE fed
        offspring == [parent EXCEPT !.vel = Neg(parent.vel)]
    IN  [ predators |-> [acc.predators EXCEPT ![j] = parent],
          eaten_bacteria |-> acc.eaten_bacteria \cup caught,
          next_gen_predators |-> IF reproduces
                                 THEN Append(acc.next_gen_predators, offspring)
                                 ELSE acc.next_gen_predators,
          \* history: which predator was credited +80 for which bacterium
          rewards |-> acc.rewards + Cardinality(caught),
          captures |-> acc.captures \cup { <<j, i>> : i \in caught } ]

\* one iteration of the loop over predators.iter_mut()
PredatorStep(acc, j, bs, p, seed) ==
    PredatorAfterUpdate(acc, j,
                        Predator_update(acc.predators[j], bs, p.speed_multiplier,
                                        JitterDraw(seed, PredatorDraw(j))),
                        bs, p)

RECURSIVE PredatorPass(_, _, _, _, _)
PredatorPass(acc, j, bs, p, seed) ==
    IF j > Len(acc.predators) THEN acc
    ELSE PredatorPass(PredatorStep(acc, j, bs, p, seed), j + 1, bs, p, seed)

----------------------------------------------------------------------------
(* Commit phase *)

\* remove eaten food: the food whose index is not in eaten_food, in order
RECURSIVE RemoveEatenFood(_, _, _)
RemoveEatenFood(foods, eaten_food, i) ==
    IF i > Len(foods) THEN <<>>
    ELSE (IF i \in eaten_food THEN <<>> ELSE <<foods[i]>>)
         \o RemoveEatenFood(foods, eaten_food, i + 1)

\* a sort in ascending order
RECURSIVE SortAscending(_)
SortAscending(S) ==
    IF S = {} THEN <<>>
    ELSE LET m == CHOOSE x \in S : \A y \in S : x <= y
         IN  <<m>> \o SortAscending(S \ {m})

\* indices.sort_by(|a, b| b.cmp(a))
RECURSIVE SortDescending(_)
SortDescending(S) ==
    IF S = {} THEN <<>>
    ELSE LET m == CHOOSE x \in S : \A y \in S : y <= x
         IN  <<m>> \o SortDescending(S \ {m})

\* Vec::swap_remove(idx): the last element takes the place of the removed one
swap_remove(v, idx) ==
    IF idx = Len(v) THEN SubSeq(v, 1, Len(v) - 1)
    ELSE [SubSeq(v, 1, Len(v) - 1) EXCEPT ![idx] = v[Len(v)]]

\* remove eaten bacteria, iterating the sorted indices from position n on
RECURSIVE RemoveEatenBacteria(_, _, _)
RemoveEatenBacteria(bs, indices, n) ==
    IF n > Len(indices) THEN bs
    ELSE RemoveEatenBacteria(
            IF indices[n] <= Len(bs) THEN swap_remove(bs, indices[n]) ELSE bs,
            indices, n + 1)

\* retain(|b| b.energy > 0.0)
IsAlive(a) == a.energy > 0

\* a prune that keeps every agent
RetainAll(v) == v

RetainAlive(v) == SelectSeq(v, IsAlive)

\* a fail safe that reseeds with the default energy, not the configured one
FailSafeDefaultEnergy(bs, p, seed) ==
    IF Len(bs) = 0
    THEN [r \in 1 .. ReseedCount |->
            Bacterium_new(RandomPos(seed, ReseedDraw(r)),
                          SimulationParams_default.initial_energy,
                          seed, ReseedDraw(r) + 2)]
    ELSE bs

\* fail safe if extinction
FailSafe(bs, p, seed) ==
    IF Len(bs) = 0
    THEN [r \in 1 .. ReseedCount |->
            Bacterium_new(RandomPos(seed, ReseedDraw(r)), p.initial_energy,
                          seed, ReseedDraw(r) + 2)]
    ELSE bs

\* a commit with a fail safe for predators
CommitPredatorsReseed(preds, next_gen_predators) ==
    IF Len(preds) = 0
    THEN << Predator_new(RandomPos(0, 0), 0, 2) >>
    ELSE RetainAlive(preds \o next_gen_predators)

\* predators.append(..); predators.retain(..): predators have no fail safe
CommitPredators(preds, next_gen_predators) == RetainAlive(preds \o next_gen_predators)

PreyAcc0(bs) == [
    bacteria |-> bs, eaten_food |-> {}, eaten_bacteria |-> {},
    next_gen_bacteria |-> <<>>, panicked |-> FALSE,
    credits |-> 0, feeders |-> {}, at_check |-> <<>>, births |-> <<>> ]

PredatorAcc0(preds, eaten_bacteria) == [
    predators |-> preds, eaten_bacteria |-> eaten_bacteria,
    next_gen_predators |-> <<>>, rewards |-> 0, captures |-> {} ]

\* the tick's record once both passes have run: the commit phase and the
\* fail safe, with every intermediate value of the tick
TickCommit(grown, prey, pred, removed, p, seed) ==
    [ panicked |-> FALSE,
      grown |-> grown,
      prey |-> prey,
      pred |-> pred,
      removed |-> removed,
      alive |-> RetainAlive(removed \o prey.next_gen_bacteria),
      bacteria |-> FailSafe(RetainAlive(removed \o prey.next_gen_bacteria), p, seed),
      predators |-> CommitPredators(pred.predators, pred.next_gen_predators),
      food |-> RemoveEatenFood(grown, prey.eaten_food, 1) ]

\* the tick's record when the loop over the bacteria panicked
TickPanic(grown, prey, preds) ==
    [ panicked |-> TRUE, grown |-> grown, prey |-> prey,
      pred |-> PredatorAcc0(preds, prey.eaten_bacteria),
      removed |-> prey.bacteria, alive |-> prey.bacteria,
      bacteria |-> prey.bacteria, predators |-> preds, food |-> grown ]

TickAfterPredators(grown, prey, pred, p, seed) ==
    TickCommit(grown, prey, pred,
               RemoveEatenBacteria(prey.bacteria, SortDescending(pred.eaten_bacteria), 1),
               p, seed)

TickAfterPrey(grown, prey, preds, p, seed) ==
    IF prey.panicked THEN TickPanic(grown, prey, preds)
    ELSE TickAfterPredators(grown, prey,
                            PredatorPass(PredatorAcc0(preds, prey.eaten_bacteria), 1,
                                         prey.bacteria, p, seed),
                            p, seed)

TickAfterGrowth(bs, preds, grown, p, seed) ==
    TickAfterPrey(grown, PreyPass(PreyAcc0(bs), 1, grown, preds, p, seed), preds, p, seed)

\* the body of `if !ui_state.paused`
Tick(bs, preds, foods, p, seed) ==
    TickAfterGrowth(bs, preds, AddFood(foods, p, seed), p, seed)

\* a paused frame that still grows food
NoTickGrowsFood(bs, preds, foods) ==
    [ panicked |-> FALSE, grown |-> foods, prey |-> PreyAcc0(bs),
      pred |-> PredatorAcc0(preds, {}), removed |-> bs, alive |-> bs,
      bacteria |-> bs, predators |-> preds,
      food |-> Append(foods, RandomPos(0, 0)) ]

\* the tick record of a paused frame: nothing happened
NoTick(bs, preds, foods) ==
    [ panicked |-> FALSE, grown |-> foods, prey |-> PreyAcc0(bs),
      pred |-> PredatorAcc0(preds, {}), removed |-> bs, alive |-> bs,
      bacteria |-> bs, predators |-> preds, food |-> foods ]

----------------------------------------------------------------------------
(* Statistics sample: lines 697-708 of main *)

RECURSIVE SumSpeed(_, _)
SumSpeed(bs, i) == IF i > Len(bs) THEN 0 ELSE bs[i].dna.speed + SumSpeed(bs, i + 1)

RECURSIVE SumSize(_, _)
SumSize(bs, i) == IF i > Len(bs) THEN 0 ELSE bs[i].dna.size + SumSize(bs, i + 1)

\* <<count, avg_speed, avg_size, predators.len()>>
Sample(bs, preds) ==
    << Len(bs),
       IF Len(bs) > 0 THEN Trunc(SumSpeed(bs, 1), Len(bs)) ELSE 0,
       IF Len(bs) > 0 THEN Trunc(SumSize(bs, 1), Len(bs)) ELSE 0,
       Len(preds) >>

RecordStats(st, bs, preds) ==
    LET sample == Sample(bs, preds)
    IN  Stats_push(st, sample[1], sample[2], sample[3], sample[4])

\* the arguments of the stats.push call, recorded in arrival order
RecordArrival(arr, bs, preds) ==
    LET sample == Sample(bs, preds)
    IN  [ population_history |-> Append(arr.population_history, sample[1]),
          avg_speed_history |-> Append(arr.avg_speed_history, sample[2]),
          avg_size_history |-> Append(arr.avg_size_history, sample[3]),
          predator_history |-> Append(arr.predator_history, sample[4]) ]

----------------------------------------------------------------------------
(* Input and the UI panel *)

UIState_default == [show_ui |-> TRUE, paused |-> FALSE]

\* the sliders of draw_ui_panel: field, min, max
Sliders == {
    <<"food_growth_rate", 0, 10 * 10>>,
    <<"speed_multiplier", 1, 3 * 10>>,
    <<"mutation_rate", 0, 50>>,
    <<"mutation_strength", 0, 50>>,
    <<"initial_energy", 50 * Micro, 200 * Micro>>,
    <<"reproduction_threshold", 50 * Micro, 300 * Micro>>,
    <<"predator_reproduction_threshold", 100 * Micro, 400 * Micro>> }

\* where the mouse is on a slider's track: new_norm in tenths
Norms == {0, 10}

\* what the user does during one frame: nothing, the Space or Tab key, a click
\* on the pause button, or the mouse held down on one slider
Inputs ==
    { [kind |-> k, slider |-> <<"none", 0, 0>>, norm |-> 0] :
        k \in {"none", "space", "tab", "button"} }
    \cup { [kind |-> "slider", slider |-> sl, norm |-> n] : sl \in Sliders, n \in Norms }

\* draw_slider: *value = min + new_norm * (max - min)
draw_slider(value, min, max, new_norm) ==
    min + new_norm * ((max - min) \div 10) + (new_norm * ((max - min) % 10)) \div 10

\* handle input: Tab toggles show_ui, Space toggles paused
HandleInput(ui, input) ==
    [ show_ui |-> IF input.kind = "tab" THEN ~ui.show_ui ELSE ui.show_ui,
      paused |-> IF input.kind = "space" THEN ~ui.paused ELSE ui.paused ]

\* draw_ui_panel, called when show_ui: the parameters after the sliders
PanelParams(p, input) ==
    IF input.kind = "slider"
    THEN [p EXCEPT ![input.slider[1]] =
            draw_slider(p[input.slider[1]], input.slider[2], input.slider[3], input.norm)]
    ELSE p

\* draw_ui_panel: the pause button
PanelUI(ui, input) ==
    IF input.kind = "button" THEN [ui EXCEPT !.paused = ~ui.paused] ELSE ui

----------------------------------------------------------------------------
(* The state after construction: lines 528-561 of main *)

InitBacteriumDraw(i) == 10 * i
InitPredatorDraw(j) == 500 + 10 * j
InitFoodDraw(j) == 800 + 2 * j

\* the lists and parameters a frame started from
Start(bs, preds, foods, p) ==
    [ bacteria |-> bs, predators |-> preds, food |-> foods, params |-> p ]

NoObs(bs, preds, foods, p) ==
    [ ticked |-> FALSE, paused |-> FALSE, seed |-> 0,
      start |-> Start(bs, preds, foods, p), tick |-> NoTick(bs, preds, foods) ]

Init ==
    \E seed \in Seeds :
        /\ params = SimulationParams_default
        /\ ui_state = UIState_default
        /\ stats = Stats_new
        /\ bacteria = [i \in 1 .. InitialBacteria |->
                         Bacterium_new(RandomPos(seed, InitBacteriumDraw(i)),
                                       SimulationParams_default.initial_energy,
                                       seed, InitBacteriumDraw(i) + 2)]
        /\ predators = [j \in 1 .. SimulationParams_default.predator_count |->
                         Predator_new(RandomPos(seed, InitPredatorDraw(j)),
                                      seed, InitPredatorDraw(j) + 2)]
        /\ food = [j \in 1 .. InitialFood |-> RandomPos(seed, InitFoodDraw(j))]
        /\ status = "running"
        /\ frames = 0
        /\ obs = NoObs(bacteria, predators, food, params)
        /\ arrivals = Stats_new

----------------------------------------------------------------------------
(* One pass of the frame loop: lines 563-749 of main *)

\* the frame, given the UI state after input handling and the tick's record
FrameEffect(input, seed, keyed, t) ==
    IF t.panicked
    THEN \* the process aborts inside the loop over the bacteria
         /\ status' = "panicked"
         /\ bacteria' = t.bacteria
         /\ food' = t.food
         /\ ui_state' = keyed
         /\ obs' = [ ticked |-> TRUE, paused |-> FALSE, seed |-> seed,
                     start |-> Start(bacteria, predators, food, params), tick |-> t ]
         /\ UNCHANGED <<predators, params, stats, frames, arrivals>>
    ELSE /\ bacteria' = t.bacteria
         /\ predators' = t.predators
         /\ food' = t.food
         /\ stats' = RecordStats(stats, t.bacteria, t.predators)
         /\ arrivals' = RecordArrival(arrivals, t.bacteria, t.predators)
         /\ params' = IF keyed.show_ui THEN PanelParams(params, input) ELSE params
         /\ ui_state' = IF keyed.show_ui THEN PanelUI(keyed, input) ELSE keyed
         /\ status' = "running"
         /\ frames' = frames + 1
         /\ obs' = [ ticked |-> ~keyed.paused, paused |-> keyed.paused,
                     seed |-> IF keyed.paused THEN 0 ELSE seed,
                     start |-> Start(bacteria, predators, food, params), tick |-> t ]

Frame(input, seed, limit) ==
    /\ status = "running"
    /\ frames < limit
    /\ \E keyed \in {HandleInput(ui_state, input)} :
       \E t \in { IF keyed.paused THEN NoTick(bacteria, predators, food)
                  ELSE Tick(bacteria, predators, food, params, seed) } :
            FrameEffect(input, seed, keyed, t)

Next == \E input \in Inputs, seed \in Seeds : Frame(input, seed, MaxFrames)

Spec == Init /\ [][Next]_vars

----------------------------------------------------------------------------
(* A state in the middle of a run: HistoryStart frames have been sampled,  *)
(* the bacteria have fed and their genomes have drifted to the clamp       *)
(* bounds, the predators are fresh or about to starve.                     *)

\* genomes many generations of DNA::mutate lead to
MidRunGenomes == {
    [ speed |-> TraitMax, size |-> TraitMin, sense_radius |-> TraitMax,
      color |-> <<ColorMin, ColorMax, ColorMax - 2, 90>> ],
    [ speed |-> TraitMin, size |-> TraitMax, sense_radius |-> TraitMin,
      color |-> <<ColorMax, ColorMin, ColorMin + 2, 90>> ],
    [ speed |-> 2 * TraitScale, size |-> 4 * TraitScale, sense_radius |-> 40 * TraitScale,
      color |-> <<50, 50, 50, 90>> ] }

MidRunPredatorEnergies == { Micro \div 10, 150 * Micro }

\* two predators closing in on the same spot from the west and from the east
MidRunPincer == <<
    [ Predator_new(<<6 * PosScale, 4 * PosScale>>, 0, 0) EXCEPT !.vel = FromHeading(0) ],
    [ Predator_new(<<39 * PosScale, 4 * PosScale>>, 0, 0) EXCEPT !.vel = FromHeading(8) ] >>

\* the predator populations of the mid-run states: one predator about to
\* starve, one fresh predator, or the pair
MidRunPredators(seed) ==
    { << [ Predator_new(RandomPos(seed, InitPredatorDraw(1)), seed, InitPredatorDraw(1) + 2)
           EXCEPT !.energy = penergy ] >> : penergy \in MidRunPredatorEnergies }
    \cup { MidRunPincer }

\* prey about to starve, or about to reproduce
MidRunPreyEnergies == { Micro \div 10, 160 * Micro }

\* values the sliders have written to params.initial_energy
MidRunInitialEnergies == { 100 * Micro, 200 * Micro }

MidRunStats == [
    population_history |-> [i \in 1 .. Min(HistoryStart, MAX_HISTORY) |-> 1 + (i % 3)],
    avg_speed_history |-> [i \in 1 .. Min(HistoryStart, MAX_HISTORY) |-> 15 + (i % 7)],
    avg_size_history |-> [i \in 1 .. Min(HistoryStart, MAX_HISTORY) |-> 40 + (i % 11)],
    predator_history |-> [i \in 1 .. Min(HistoryStart, MAX_HISTORY) |-> i % 2] ]

InitMidRun ==
    \E seed \in Seeds :
    \E genome \in MidRunGenomes, preds \in MidRunPredators(seed),
       energy \in MidRunPreyEnergies, initial_energy \in MidRunInitialEnergies :
        /\ params = [SimulationParams_default EXCEPT !.initial_energy = initial_energy]
        /\ ui_state = UIState_default
        /\ stats = MidRunStats
        /\ bacteria = [i \in 1 .. InitialBacteria |->
                         [ Bacterium_new(RandomPos(seed, InitBacteriumDraw(i)),
                                         energy, seed, InitBacteriumDraw(i) + 2)
                           EXCEPT !.dna = IF i = 1 THEN genome ELSE @,
                                  !.age = HistoryStart ]]
        /\ predators = preds
        /\ food = [j \in 1 .. InitialFood |-> RandomPos(seed, InitFoodDraw(j))]
        /\ status = "running"
        /\ frames = HistoryStart
        /\ obs = NoObs(bacteria, predators, food, params)
        /\ arrivals = MidRunStats

NextMidRun ==
    \E input \in Inputs, seed \in Seeds : Frame(input, seed, HistoryStart + MidRunFrames)

SpecMidRun == InitMidRun /\ [][NextMidRun]_vars

----------------------------------------------------------------------------
(* The commit phase on its own: lines 660-694 of main applied to a prey    *)
(* list and an arbitrary eaten-prey set over its indices.                  *)

InitCommit ==
    \E seed \in Seeds, n \in 1 .. MaxCommitPrey :
        /\ params = SimulationParams_default
        /\ ui_state = UIState_default
        /\ stats = Stats_new
        /\ bacteria = [i \in 1 .. n |->
                         [ Bacterium_new(RandomPos(seed, InitBacteriumDraw(i)),
                                         SimulationParams_default.initial_energy,
                                         seed, InitBacteriumDraw(i) + 2)
                           EXCEPT !.age = i ]]
        /\ predators = [j \in 1 .. SimulationParams_default.predator_count |->
                         Predator_new(RandomPos(seed, InitPredatorDraw(j)),
                                      seed, InitPredatorDraw(j) + 2)]
        /\ food = [j \in 1 .. InitialFood |-> RandomPos(seed, InitFoodDraw(j))]
        /\ status = "running"
        /\ frames = 0
        /\ obs = NoObs(bacteria, predators, food, params)
        /\ arrivals = Stats_new

\* the commit phase and the fail safe, given the eaten-prey set the two
\* passes left
CommitPhase(eaten_bacteria, seed) ==
    /\ ~obs.ticked
    /\ \E t \in { TickAfterPredators(food, PreyAcc0(bacteria),
                                     PredatorAcc0(predators, eaten_bacteria),
                                     params, seed) } :
          /\ bacteria' = t.bacteria
          /\ predators' = t.predators
          /\ food' = t.food
          /\ obs' = [ ticked |-> TRUE, paused |-> FALSE, seed |-> seed,
                      start |-> Start(bacteria, predators, food, params), tick |-> t ]
    /\ UNCHANGED <<params, ui_state, stats, status, frames, arrivals>>

NextCommit ==
    \E eaten_bacteria \in SUBSET (1 .. Len(bacteria)), seed \in Seeds :
        CommitPhase(eaten_bacteria, seed)

SpecCommit == InitCommit /\ [][NextCommit]_vars

----------------------------------------------------------------------------
(* Claims *)

\* the bacteria that emitted an offspring in the last tick
Parents == { obs.tick.prey.births[n].parent : n \in 1 .. Len(obs.tick.prey.births) }

\* the births of the last tick whose parent is the bacterium at index idx
BirthsOf(idx) ==
    { n \in 1 .. Len(obs.tick.prey.births) : obs.tick.prey.births[n].parent = idx }

\* the bacteria the loop of the last tick got to (all of them unless it panicked)
Checked == 1 .. Len(obs.tick.prey.at_check)

\* C1: in every unpaused tick a prey that is removed because it lay within a
\* predator's lethal radius, whether it was marked eaten in the per-prey pass
\* or in the per-predator pass, emitted no offspring in that tick.
C1_EatenPreyEmitsNoOffspring ==
    obs.ticked => obs.tick.pred.eaten_bacteria \cap Parents = {}

\* the energy the eat-food loops of the last tick added to bacteria 1 .. n:
\* the energy at the reproduction check minus the energy after metabolism
RECURSIVE FoodEnergyCredited(_)
FoodEnergyCredited(n) ==
    IF n = 0 THEN 0
    ELSE LET before == obs.start.bacteria[n]
         IN  obs.tick.prey.at_check[n].energy
             - (before.energy - Metabolism(before.dna, obs.start.params.speed_multiplier))
             + FoodEnergyCredited(n - 1)

\* the bacteria within eating range of food item i at their eat-food loop
InEatingRange(i) ==
    { idx \in Checked :
        Within(obs.tick.prey.at_check[idx].pos, obs.tick.grown[i],
               obs.tick.prey.at_check[idx].dna.size + 2 * PosScale) }

\* C2: in every unpaused tick each food index is credited to at most one
\* prey, the first in iteration order among those within (size + 2.0) of it;
\* one +30 is applied per eaten item, and the food energy credited in the tick
\* is 30 times the number of food items removed at commit.
C2_FirstTouchExclusive ==
    obs.ticked =>
        /\ \A i \in 1 .. Len(obs.tick.grown) :
              /\ Cardinality({ f \in obs.tick.prey.feeders : f[2] = i }) <= 1
              /\ \A f \in obs.tick.prey.feeders :
                    f[2] = i => \A idx \in InEatingRange(i) : f[1] <= idx
              /\ (i \in obs.tick.prey.eaten_food) <=> (InEatingRange(i) # {})
        /\ obs.tick.prey.credits = Cardinality(obs.tick.prey.eaten_food)
        /\ FoodEnergyCredited(Len(obs.tick.prey.at_check))
              = 30 * Micro * Cardinality(obs.tick.prey.eaten_food)
        /\ ~obs.tick.panicked =>
              Len(obs.tick.grown) - Len(food) = Cardinality(obs.tick.prey.eaten_food)

\* C2 witness: two bacteria were within eating range of the same eaten food
C2_TwoPreyOneFood ==
    /\ obs.ticked
    /\ ~obs.tick.panicked
    /\ \E i \in obs.tick.prey.eaten_food : Cardinality(InEatingRange(i)) >= 2

\* C3: for every parameter value the UI can write (mutation strength exactly
\* 0 included) every unpaused tick runs to completion: no frame aborts.
C3_TickIsTotal == status = "running"

\* C4: whenever the prey list is empty after the commit phase of an unpaused
\* tick, the tick ends with exactly 10 fresh prey of the configured initial
\* energy and age 0, the predators and the food are what the commit phase
\* left (the food, when none was eaten, is the food the tick started with
\* plus its growth); the prey list is never empty.
C4_ExtinctionReseedsTen ==
    /\ Len(bacteria) > 0
    /\ (obs.ticked /\ ~obs.tick.panicked /\ Len(obs.tick.alive) = 0) =>
          /\ Len(bacteria) = 10
          /\ \A i \in 1 .. Len(bacteria) :
                /\ bacteria[i].energy = obs.start.params.initial_energy
                /\ bacteria[i].age = 0
          /\ predators = RetainAlive(obs.tick.pred.predators \o obs.tick.pred.next_gen_predators)
          /\ Len(food) = Len(obs.tick.grown) - Cardinality(obs.tick.prey.eaten_food)
          /\ obs.tick.prey.eaten_food = {} =>
                /\ food = obs.tick.grown
                /\ SubSeq(food, 1, Len(obs.start.food)) = obs.start.food

\* C4 as stated: at extinction the food list differs from the food the tick
\* started with by that tick's growth only.
C4_FoodChangedOnlyByGrowth ==
    /\ C4_ExtinctionReseedsTen
    /\ (obs.ticked /\ ~obs.tick.panicked /\ Len(obs.tick.alive) = 0) =>
          food = AddFood(obs.start.food, obs.start.params, obs.seed)

\* C4 witness: a tick whose commit phase left no prey, the last of which had
\* eaten food, has reseeded
C4_Reseeded ==
    /\ obs.ticked
    /\ ~obs.tick.panicked
    /\ Len(obs.tick.alive) = 0
    /\ obs.tick.prey.eaten_food # {}
    /\ Len(bacteria) = ReseedCount

\* C5: food is spawned only up to the ceiling: a tick that starts with a food
\* count at or below max_food ends with a food count at or below max_food.
C5_FoodWithinCeiling ==
    (obs.ticked /\ Len(obs.start.food) <= obs.start.params.max_food) =>
        Len(food) <= obs.start.params.max_food

\* C6: after every frame the four statistics series have the same length,
\* that length never exceeds 300, and after n frames it is min(n, 300).
C6_SeriesInLockstep ==
    /\ Len(stats.avg_speed_history) = Len(stats.population_history)
    /\ Len(stats.avg_size_history) = Len(stats.population_history)
    /\ Len(stats.predator_history) = Len(stats.population_history)
    /\ Len(stats.population_history) <= 300
    /\ Len(stats.population_history) = Min(frames, 300)

\* C6 witness: more than 300 frames have run and the series are full
C6_HistoryFull ==
    /\ frames > MAX_HISTORY
    /\ Len(stats.population_history) = MAX_HISTORY
    /\ Len(stats.predator_history) = MAX_HISTORY

\* C7: a prey not marked eaten whose energy E at its reproduction check is
\* strictly above the reproduction threshold emits exactly one offspring in
\* the tick, its energy becomes E/2, and the offspring has energy E/2, age 0,
\* the parent's position and the negated velocity of the parent; a prey with
\* energy at or below the threshold emits none.
C7_ReproductionMath ==
    obs.ticked =>
        \A idx \in Checked :
            LET E == obs.tick.prey.at_check[idx].energy
                parent == obs.tick.prey.bacteria[idx]
            IN  /\ (idx \notin obs.tick.prey.eaten_bacteria
                        /\ E > obs.start.params.reproduction_threshold) =>
                      /\ Cardinality(BirthsOf(idx)) = 1
                      /\ parent.energy = Halve(E)
                      /\ \A n \in BirthsOf(idx) :
                            LET child == obs.tick.prey.births[n].child
                            IN  /\ child.energy = Halve(E)
                                /\ child.age = 0
                                /\ child.pos = parent.pos
                                /\ child.vel = Neg(parent.vel)
                /\ E <= obs.start.params.reproduction_threshold => BirthsOf(idx) = {}

\* a genome within the ranges DNA::random and DNA::mutate clamp to
GenomeInRange(dna) ==
    /\ dna.speed >= TraitMin /\ dna.speed <= TraitMax
    /\ dna.size >= TraitMin /\ dna.size <= TraitMax
    /\ dna.sense_radius >= TraitMin /\ dna.sense_radius <= TraitMax
    /\ \A c \in 1 .. 3 : dna.color[c] >= ColorMin /\ dna.color[c] <= ColorMax

\* what DNA::mutate computes for a trait before clamping it
Unclamped(x, seed, kc) ==
    Trunc(x * (ColScale + gen_range(seed, kc, -obs.start.params.mutation_strength,
                                    obs.start.params.mutation_strength)), ColScale)

\* the birth n of the last tick perturbed the speed or the size of its genome
\* to a value outside the range, or a colour channel below or above its range
BirthWasClamped(n) ==
    LET idx == obs.tick.prey.births[n].parent
        dna == obs.tick.prey.at_check[idx].dna
        k == PreyDraw(idx) + 1
    IN  \/ /\ gen_bool(obs.seed, k, obs.start.params.mutation_rate)
           /\ Unclamped(dna.speed, obs.seed, k + 3) > TraitMax
        \/ /\ gen_bool(obs.seed, k + 1, obs.start.params.mutation_rate)
           /\ Unclamped(dna.size, obs.seed, k + 4) < TraitMin
        \/ \E c \in 1 .. 3 :
              \/ dna.color[c] + gen_range(obs.seed, k + 5 + c, -5, 5) < ColorMin
              \/ dna.color[c] + gen_range(obs.seed, k + 5 + c, -5, 5) > ColorMax

\* C8: in every reachable state every prey's genome has speed, size and sense
\* radius within [0.1, 100.0] and each colour channel within [0.2, 1.0]: seed
\* prey, reseeded prey and every offspring produced by mutate.
C8_GenomeWithinRanges ==
    /\ \A i \in 1 .. Len(bacteria) : GenomeInRange(bacteria[i].dna)
    /\ ~obs.tick.panicked =>
          \A n \in 1 .. Len(obs.tick.prey.births) :
              GenomeInRange(obs.tick.prey.births[n].child.dna)

\* C8 witness: an offspring whose mutation had to be clamped is in the list
C8_ClampedOffspring ==
    /\ obs.ticked
    /\ ~obs.tick.panicked
    /\ \E n \in 1 .. Len(obs.tick.prey.births) :
          /\ BirthWasClamped(n)
          /\ \E i \in 1 .. Len(bacteria) : bacteria[i] = obs.tick.prey.births[n].child

\* C9: predator extinction is terminal while prey extinction is not: once the
\* predator list is empty it is empty after every later frame, and the prey
\* list is never empty.
C9_PredatorExtinctionTerminal ==
    /\ [](Len(bacteria) > 0)
    /\ [][Len(predators) = 0 => Len(predators') = 0]_vars

\* C9 witness: a tick ran to its end with no predator at its start
C9_PreyOnlyTick ==
    /\ obs.ticked
    /\ ~obs.tick.panicked
    /\ obs.start.predators = <<>>
    /\ predators = <<>>
    /\ Len(bacteria) > 0

\* series s2 is series s with one sample x appended (and, at capacity, the
\* oldest sample evicted)
OneSampleAppended(s, s2, x) ==
    \/ Len(s) < MAX_HISTORY /\ s2 = Append(s, x)
    \/ Len(s) = MAX_HISTORY /\ s2 = Tail(Append(s, x))

\* C10: while the pause flag is set a frame leaves the prey list, the predator
\* list and the food list unchanged, yet appends exactly one sample to each
\* of the four statistics series.
C10_PausedFrameOnlyRecords ==
    [][obs'.paused =>
          /\ bacteria' = bacteria
          /\ predators' = predators
          /\ food' = food
          /\ OneSampleAppended(stats.population_history, stats'.population_history,
                               Len(bacteria))
          /\ OneSampleAppended(stats.avg_speed_history, stats'.avg_speed_history,
                               Sample(bacteria, predators)[2])
          /\ OneSampleAppended(stats.avg_size_history, stats'.avg_size_history,
                               Sample(bacteria, predators)[3])
          /\ OneSampleAppended(stats.predator_history, stats'.predator_history,
                               Len(predators))]_vars

\* C10 witness: a paused frame has run on full series
C10_PausedFrameRan ==
    /\ obs.paused
    /\ ui_state.paused
    /\ frames > MAX_HISTORY

\* the last n entries of sequence s
LastN(s, n) == SubSeq(s, Len(s) - n + 1, Len(s))

\* series now is series before with its oldest entry dropped and x put last
OldestDropped(before, now, x) ==
    /\ Len(now) = Len(before)
    /\ \A i \in 1 .. Len(before) - 1 : now[i] = before[i + 1]
    /\ now[Len(now)] = x

\* C11: the statistics series are FIFO rolling histories: after n frames each
\* series holds exactly the most recent min(n, 300) samples in arrival order,
\* newest last, and a push onto series of length 300 drops exactly the oldest
\* entry of each of the four series.
C11_RollingFifo ==
    /\ [](/\ Len(arrivals.population_history) = frames
          /\ stats.population_history
                = LastN(arrivals.population_history, Min(frames, 300))
          /\ stats.avg_speed_history
                = LastN(arrivals.avg_speed_history, Min(frames, 300))
          /\ stats.avg_size_history
                = LastN(arrivals.avg_size_history, Min(frames, 300))
          /\ stats.predator_history
                = LastN(arrivals.predator_history, Min(frames, 300)))
    /\ [][(frames' = frames + 1 /\ Len(stats.population_history) = 300) =>
             /\ OldestDropped(stats.population_history, stats'.population_history,
                              Len(bacteria'))
             /\ OldestDropped(stats.avg_speed_history, stats'.avg_speed_history,
                              Sample(bacteria', predators')[2])
             /\ OldestDropped(stats.avg_size_history, stats'.avg_size_history,
                              Sample(bacteria', predators')[3])
             /\ OldestDropped(stats.predator_history, stats'.predator_history,
                              Len(predators'))]_vars

\* C11 witness: a push onto full series has evicted the first sample that
\* ever arrived, and the newest sample differs from the evicted one
C11_OldestEvicted ==
    /\ frames > MAX_HISTORY
    /\ Len(stats.population_history) = MAX_HISTORY
    /\ stats.population_history[1] = arrivals.population_history[2]
    /\ stats.avg_speed_history[MAX_HISTORY] # arrivals.avg_speed_history[1]

\* the energy bacterium idx had right after its update in the last tick: its
\* energy at the reproduction check without the +30 credits it was given
EnergyAfterUpdate(idx) ==
    obs.tick.prey.at_check[idx].energy
    - 30 * Micro * Cardinality({ f \in obs.tick.prey.feeders : f[1] = idx })

\* what the update of bacterium idx deducted from its energy in the last tick
Deducted(idx) == obs.start.bacteria[idx].energy - EnergyAfterUpdate(idx)

\* ten times (speed^2 * size * 0.005 + 0.1) * speed_multiplier, in millionths
\* (the multiplier is in tenths)
TenfoldCost(idx) ==
    LET dna == obs.start.bacteria[idx].dna
    IN  (dna.speed * dna.speed * dna.size * 5 + 100000)
        * obs.start.params.speed_multiplier

\* C12: each prey update deducts exactly (speed^2 * size * 0.005 + 0.1) *
\* speed_multiplier from the prey's energy (to the millionth) and increments
\* its age by exactly 1, whether it fled, foraged or bounced; a prey of speed
\* 2.0 and size 4.0 under multiplier 1.0 loses 0.18.
C12_MetabolismFormula ==
    obs.ticked =>
        \A idx \in Checked :
            /\ 10 * Deducted(idx) <= TenfoldCost(idx)
            /\ TenfoldCost(idx) < 10 * Deducted(idx) + 10
            /\ obs.tick.prey.at_check[idx].age = obs.start.bacteria[idx].age + 1
            /\ ( /\ obs.start.bacteria[idx].dna.speed = 20
                 /\ obs.start.bacteria[idx].dna.size = 40
                 /\ obs.start.params.speed_multiplier = 10 ) =>
                    Deducted(idx) = 180000

\* C12 witness: a prey of speed 2.0 and size 4.0 was updated under multiplier
\* 1.0 and turned away from the heading it had
C12_ExampleUpdated ==
    /\ obs.ticked
    /\ \E idx \in Checked :
          /\ obs.start.bacteria[idx].dna.speed = 20
          /\ obs.start.bacteria[idx].dna.size = 40
          /\ obs.start.params.speed_multiplier = 10
          /\ Deducted(idx) = 180000
          /\ obs.tick.prey.at_check[idx].vel # obs.start.bacteria[idx].vel

\* the predators of the last tick, after their updates
Hunters == 1 .. Len(obs.tick.pred.predators)

\* predator j, where its update of the last tick left it, is within its
\* lethal radius of bacterium i
InLethalRadius(j, i) ==
    Within(obs.tick.pred.predators[j].pos, obs.tick.prey.bacteria[i].pos,
           obs.tick.pred.predators[j].size + obs.tick.prey.bacteria[i].dna.size)

\* the bacteria predator j was credited for in the last tick
CapturesOf(j) == { c \in obs.tick.pred.captures : c[1] = j }

\* the energy of predator j after its update and its captures, before it
\* reproduces: the cost of an update is 0.2 * speed_multiplier
EnergyAfterCaptures(j) ==
    obs.start.predators[j].energy - 20000 * obs.start.params.speed_multiplier
    + 80 * Micro * Cardinality(CapturesOf(j))

\* C13: in every unpaused tick each prey yields the +80 capture reward to at
\* most one predator: a predator gains +80 only for a prey within its lethal
\* radius whose index is not yet in the eaten-prey set, and marks that index,
\* so neither a later predator nor the same predator is credited again.
C13_RewardAtMostOnce ==
    (obs.ticked /\ ~obs.tick.panicked) =>
        /\ \A i \in 1 .. Len(obs.tick.prey.bacteria) :
              Cardinality({ c \in obs.tick.pred.captures : c[2] = i }) <= 1
        /\ \A c \in obs.tick.pred.captures :
              /\ c[2] \notin obs.tick.prey.eaten_bacteria
              /\ InLethalRadius(c[1], c[2])
              /\ \A j \in Hunters : InLethalRadius(j, c[2]) => c[1] <= j
        /\ obs.tick.pred.rewards = Cardinality(obs.tick.pred.captures)
        /\ obs.tick.pred.eaten_bacteria
              = obs.tick.prey.eaten_bacteria
                \cup { c[2] : c \in obs.tick.pred.captures }
        /\ \A j \in Hunters :
              obs.tick.pred.predators[j].energy
                 = IF EnergyAfterCaptures(j)
                         > obs.start.params.predator_reproduction_threshold
                   THEN Halve(EnergyAfterCaptures(j))
                   ELSE EnergyAfterCaptures(j)

\* C13 witness: two predators were within their lethal radius of a prey that
\* one of them was credited for
C13_TwoHuntersOnePrey ==
    /\ obs.ticked
    /\ ~obs.tick.panicked
    /\ \E c \in obs.tick.pred.captures :
          \E j \in Hunters : j # c[1] /\ InLethalRadius(j, c[2])

\* the indices of the eaten-prey set at the commit phase of the last tick
Eaten == obs.tick.pred.eaten_bacteria

\* how many entries of sequence s equal x
Occurrences(s, x) == Cardinality({ i \in 1 .. Len(s) : s[i] = x })

\* how many unmarked bacteria of the list before the commit phase equal x
UnmarkedOccurrences(x) ==
    Cardinality({ i \in 1 .. Len(obs.tick.prey.bacteria) :
                    i \notin Eaten /\ obs.tick.prey.bacteria[i] = x })

\* C14: the commit phase removes from the prey list exactly the prey whose
\* indices are in the eaten-prey set, no more and no fewer: before offspring
\* are appended the list holds every unmarked prey once and no marked one,
\* and its length is the pre-tick count minus the size of the eaten set.
C14_RemovesExactlyEaten ==
    (obs.ticked /\ ~obs.tick.panicked) =>
        /\ Len(obs.tick.prey.bacteria) = Len(obs.start.bacteria)
        /\ Eaten \subseteq 1 .. Len(obs.start.bacteria)
        /\ Len(obs.tick.removed) = Len(obs.start.bacteria) - Cardinality(Eaten)
        /\ \A i \in 1 .. Len(obs.tick.prey.bacteria) :
              Occurrences(obs.tick.removed, obs.tick.prey.bacteria[i])
                 = UnmarkedOccurrences(obs.tick.prey.bacteria[i])
        /\ \A n \in 1 .. Len(obs.tick.removed) :
              UnmarkedOccurrences(obs.tick.removed[n]) >= 1

\* C14 witness: the last prey and an earlier one were eaten while a third
\* survived, so that swap_remove moved prey around
C14_SwapRemoveReordered ==
    /\ obs.ticked
    /\ ~obs.tick.panicked
    /\ Len(obs.tick.prey.bacteria) \in Eaten
    /\ Cardinality(Eaten) >= 2
    /\ Len(obs.tick.removed) >= 1
    /\ \E i \in 1 .. Len(obs.tick.prey.bacteria) :
          i \notin Eaten /\ \E k \in Eaten : k < i

\* the prey list and the predator list of the last tick at the prune step:
\* the survivors of the passes followed by the offspring
PreyAtPrune == obs.tick.removed \o obs.tick.prey.next_gen_bacteria
PredatorsAtPrune == obs.tick.pred.predators \o obs.tick.pred.next_gen_predators

\* sequence after holds the agents of sequence before whose energy is above
\* 0, each as often as before, and nothing else
PrunedTo(before, after) ==
    /\ Len(after) = Cardinality({ n \in 1 .. Len(before) : before[n].energy > 0 })
    /\ \A n \in 1 .. Len(before) :
          before[n].energy > 0 =>
              Occurrences(after, before[n]) = Occurrences(before, before[n])
    /\ \A n \in 1 .. Len(after) : after[n].energy > 0

\* C15: after every unpaused tick every prey and every predator remaining in
\* the lists (survivors, offspring and reseeded prey) has energy strictly
\* greater than 0, and an agent whose energy is at or below 0 at the prune
\* step is absent afterwards.
C15_OnlyPositiveEnergyRemains ==
    status = "running" =>
        /\ \A i \in 1 .. Len(bacteria) : bacteria[i].energy > 0
        /\ \A j \in 1 .. Len(predators) : predators[j].energy > 0
        /\ obs.ticked =>
              /\ PrunedTo(PreyAtPrune, obs.tick.alive)
              /\ PrunedTo(PredatorsAtPrune, predators)
              /\ Len(obs.tick.alive) > 0 => bacteria = obs.tick.alive

\* C15 witness: a prey and a predator at or below 0 at the prune step were
\* dropped while another prey stayed
C15_StarvedDropped ==
    /\ obs.ticked
    /\ status = "running"
    /\ \E n \in 1 .. Len(PreyAtPrune) : PreyAtPrune[n].energy <= 0
    /\ \E j \in 1 .. Len(PredatorsAtPrune) : PredatorsAtPrune[j].energy <= 0
    /\ Len(obs.tick.alive) > 0

=============================================================================
